---- MODULE Spec2Model ----
(***************************************************************************)
(* A model of pandas_ta.overlap.mcgd.mcgd (McGinley Dynamic).              *)
(*                                                                         *)
(* One call of mcgd is modelled statement by statement.  Numbers are       *)
(* exact rationals <<n, d>> in lowest terms with d > 0, extended with the  *)
(* IEEE-754 special values the float64 pipeline produces:                  *)
(*   <<1, 0>> = +inf, <<-1, 0>> = -inf, <<0, 0>> = NaN.                    *)
(* A pandas gap (missing value) is NaN, as in pandas itself.               *)
(* Python's None is the empty tuple <<>>.                                  *)
(***************************************************************************)
EXTENDS Integers, Sequences, FiniteSets, TLC

\* ------------------------------------------------------------------ bounds

\* Longest flat run-in (equal prices) in front of the free tail of an input.
MaxPad == 8
\* Longest free tail of an input.
MaxTail == 2
\* Largest numerator/denominator of a value that is fed back into the next
\* window (the exact arithmetic stays within 32-bit integers).
MaxMag == 20

\* ------------------------------------------------- float64 as a rational

None == <<>>

Abs(x) == IF x < 0 THEN -x ELSE x

RECURSIVE Gcd(_, _)
Gcd(a, b) == IF b = 0 THEN a ELSE Gcd(b, a % b)

Sgn(x) == IF x > 0 THEN 1 ELSE IF x < 0 THEN -1 ELSE 0

\* The value n/d; d = 0 gives inf, -inf or NaN by the sign of n.
Q(n, d) ==
    IF d = 0 THEN <<Sgn(n), 0>>
    ELSE LET g == Gcd(Abs(n), Abs(d))
             s == IF d < 0 THEN -1 ELSE 1
         IN  <<(s * n) \div g, (s * d) \div g>>

NaN == <<0, 0>>
PosInf == <<1, 0>>
NegInf == <<-1, 0>>
Zero == <<0, 1>>
One == <<1, 1>>

IsNaN(x) == x = NaN
IsFinite(x) == x[2] # 0
IsInf(x) == x[2] = 0 /\ x[1] # 0
IsZero(x) == x[2] # 0 /\ x[1] = 0
FSign(x) == Sgn(x[1])

FNeg(x) == <<-x[1], x[2]>>

\* x + y in IEEE arithmetic: inf + -inf is NaN.
FAdd(x, y) ==
    IF IsNaN(x) \/ IsNaN(y) THEN NaN
    ELSE IF IsInf(x) /\ IsInf(y) THEN (IF x = y THEN x ELSE NaN)
    ELSE IF IsInf(x) THEN x
    ELSE IF IsInf(y) THEN y
    ELSE LET g == Gcd(x[2], y[2])
             l == (x[2] \div g) * y[2]
         IN  Q(x[1] * (l \div x[2]) + y[1] * (l \div y[2]), l)

FSub(x, y) == FAdd(x, FNeg(y))

\* x * y in IEEE arithmetic: inf * 0 is NaN.
FMul(x, y) ==
    IF IsNaN(x) \/ IsNaN(y) THEN NaN
    ELSE IF IsInf(x) \/ IsInf(y)
         THEN (IF IsZero(x) \/ IsZero(y) THEN NaN
               ELSE <<FSign(x) * FSign(y), 0>>)
    ELSE Q(x[1] * y[1], x[2] * y[2])

\* x / y in IEEE arithmetic (numpy float64: a warning, never an error):
\* 0/0 and inf/inf are NaN, x/0 is inf with the sign of x, x/inf is 0.
\* Every zero divisor of mcg_ is +0 or has its sign removed by ** 4.
FDiv(x, y) ==
    IF IsNaN(x) \/ IsNaN(y) THEN NaN
    ELSE IF IsInf(x) /\ IsInf(y) THEN NaN
    ELSE IF IsInf(x) THEN <<FSign(x) * (IF FSign(y) < 0 THEN -1 ELSE 1), 0>>
    ELSE IF IsInf(y) THEN Zero
    ELSE IF IsZero(y) THEN <<FSign(x), 0>>
    ELSE Q(x[1] * y[2], x[2] * y[1])

\* x ** 4.
FPow4(x) == LET s == FMul(x, x) IN FMul(s, s)

\* a > 0, a <= 1 on finite values (comparisons with NaN are False).
FPositive(x) == x[2] # 0 /\ x[1] > 0
FLeOne(x) == x[2] # 0 /\ x[1] <= x[2]

\* int(x) for a finite x: truncation toward zero.
IntOf(x) == IF x[1] >= 0 THEN x[1] \div x[2] ELSE -((-x[1]) \div x[2])


\* ------------------------------------------------------- the input space

\* Prices an input may hold.
Vals == {-1, 0, 1, 2}

\* The sequence f as a tuple of its values.
AsSeq(f) == f \o <<>>

\* k copies of v.
Pad(v, k) == AsSeq([j \in 1..k |-> Q(v, 1)])

\* The tails: every sequence over Vals of length 1..MaxTail.
Tails == UNION {[1..m -> {Q(v, 1) : v \in Vals}] : m \in 1..MaxTail}

\* Prices of a flat run-in.
PadVals == {1, 2}

\* The inputs: a flat run-in of at most MaxPad equal prices, then a tail.
Inputs ==
    Tails \cup {Pad(v, k) \o t : v \in PadVals, k \in 1..MaxPad, t \in Tails}

\* The values of the length argument: absent, 0, negative, a positive
\* non-integer, and positive integers.
LengthArgs == {None, Q(0, 1), Q(-5, 1), Q(1, 2), Q(2, 1), Q(10, 1)}

\* The values of the c argument: absent, 0, above 1, negative, and in (0, 1].
CArgs == {None, Q(0, 1), Q(2, 1), Q(-1, 1), Q(1, 2), Q(1, 1)}

\* The values of the offset argument: absent (None) or <<k>>.
OffsetArgs == {None, <<0>>, <<1>>, <<2>>, <<-1>>}

\* The fill options (kwargs): a key is absent (None) or holds <<value>>.
NoFill == [fillna |-> None, fill_method |-> None]
FillArgs ==
    {NoFill,
     [fillna |-> <<Zero>>, fill_method |-> None],
     [fillna |-> None, fill_method |-> <<"ffill">>],
     [fillna |-> None, fill_method |-> <<"bfill">>],
     [fillna |-> <<Q(2, 1)>>, fill_method |-> <<"ffill">>]}

\* --------------------------------------------------------------- the code

DefaultLength == 10
DefaultC == 1

\* NormLength without the "length > 0" test.
NormLengthNoSign(a) ==
    IF a # None /\ ~IsZero(a) THEN IntOf(a) ELSE DefaultLength

\* length = int(length) if length and length > 0 else 10
NormLength(a) ==
    IF a # None /\ ~IsZero(a) /\ FPositive(a) THEN IntOf(a) ELSE DefaultLength

\* c = float(c) if c and 0 < c <= 1 else 1
NormC(a) ==
    IF a # None /\ ~IsZero(a) /\ FPositive(a) /\ FLeOne(a) THEN a
    ELSE Q(DefaultC, 1)

\* verify_series(close, length): the series, or None when it is shorter
\* than length.
verify_series(s, min_length) == IF Len(s) < min_length THEN None ELSE s

\* get_offset(offset): the integer offset, 0 when absent.
get_offset(x) == IF x = None THEN 0 ELSE x[1]

\* mcg_ with a guard that turns a zero first element into NaN.
mcg_ZeroGuard(s0, s1, length, c) ==
    LET denom == FMul(FMul(c, Q(length, 1)), FPow4(FDiv(s1, s0)))
    IN  IF IsZero(s0) THEN NaN ELSE FAdd(s0, FDiv(FSub(s1, s0), denom))

\* mcg_ with a guard that skips the division by a zero denominator.
mcg_ZeroDenom(s0, s1, length, c) ==
    LET denom == FMul(FMul(c, Q(length, 1)), FPow4(FDiv(s1, s0)))
    IN  IF IsZero(denom) THEN s0 ELSE FAdd(s0, FDiv(FSub(s1, s0), denom))

\* mcg_ on the window [s0, s1]: the value it writes to series[1] and returns.
mcg_(s0, s1, length, c) ==
    LET denom == FMul(FMul(c, Q(length, 1)), FPow4(FDiv(s1, s0)))
    IN  FAdd(s0, FDiv(FSub(s1, s0), denom))

\* RollWindow on a window that looks one position ahead.
RollWindowAhead(arr, out, i, length, c) ==
    LET v == mcg_(arr[i - 1], arr[IF i < Len(arr) THEN i + 1 ELSE i], length, c)
    IN  <<AsSeq([j \in 1..Len(arr) |-> IF j = i THEN v ELSE arr[j]]),
          AsSeq([j \in 1..Len(out) |-> IF j = i THEN v ELSE out[j]])>>

\* RollWindow on a window that is a copy: the write is lost.
RollWindowNoWrite(arr, out, i, length, c) ==
    LET v == mcg_(arr[i - 1], arr[i], length, c)
    IN  <<arr, AsSeq([j \in 1..Len(out) |-> IF j = i THEN v ELSE out[j]])>>

\* RollWindow with the write going to the window's first element.
RollWindowWriteFirst(arr, out, i, length, c) ==
    LET v == mcg_(arr[i - 1], arr[i], length, c)
    IN  <<AsSeq([j \in 1..Len(arr) |-> IF j = i - 1 THEN v ELSE arr[j]]),
          AsSeq([j \in 1..Len(out) |-> IF j = i THEN v ELSE out[j]])>>

\* One window of close[0:].rolling(2, min_periods=2).apply(mcg_, raw=True):
\* the window ending at position i (1-based, i >= 2) is the view arr[i-1..i]
\* of the values the rolling pass runs over; mcg_ writes its result to the
\* window's second element and returns it into the output array.
RollWindow(arr, out, i, length, c) ==
    LET v == mcg_(arr[i - 1], arr[i], length, c)
    IN  <<AsSeq([j \in 1..Len(arr) |-> IF j = i THEN v ELSE arr[j]]),
          AsSeq([j \in 1..Len(out) |-> IF j = i THEN v ELSE out[j]])>>

\* The output array before any window ran: NaN wherever the window holds
\* fewer than min_periods observations (position 1).
RollInit(arr) == AsSeq([j \in 1..Len(arr) |-> NaN])

\* The rolling pass up to and including the window ending at position k.
RECURSIVE RollUpTo(_, _, _, _)
RollUpTo(arr, k, length, c) ==
    IF k < 2 THEN <<arr, RollInit(arr)>>
    ELSE LET p == RollUpTo(arr, k - 1, length, c)
         IN  RollWindow(p[1], p[2], k, length, c)

\* close[:1].append(mcg_cell): the whole output array appended.
AppendAll(buf, cell) ==
    AsSeq([j \in 1..(Len(cell) + 1) |-> IF j = 1 THEN buf[1] ELSE cell[j - 1]])

\* close[:1].append(mcg_cell[1:])
AppendHead(buf, cell) ==
    AsSeq([j \in 1..Len(buf) |-> IF j = 1 THEN buf[1] ELSE cell[j]])

\* Series.shift(-k).
ShiftBack(s, k) ==
    AsSeq([j \in 1..Len(s) |-> IF j + k \in 1..Len(s) THEN s[j + k] ELSE NaN])

\* Series.shift(k): values move k positions later (earlier for k < 0);
\* vacated positions hold NaN; the length is kept.
Shift(s, k) ==
    AsSeq([j \in 1..Len(s) |-> IF j - k \in 1..Len(s) THEN s[j - k] ELSE NaN])

\* Series.fillna(value): every NaN becomes value.
FillValue(s, v) ==
    AsSeq([j \in 1..Len(s) |-> IF IsNaN(s[j]) THEN v ELSE s[j]])

\* Series.fillna(method="ffill"): a NaN takes the last value before it that
\* is not NaN, and stays NaN when there is none.
RECURSIVE FFillAt(_, _)
FFillAt(s, j) ==
    IF j < 1 THEN NaN ELSE IF ~IsNaN(s[j]) THEN s[j] ELSE FFillAt(s, j - 1)

\* Series.fillna(method="bfill"): the same from the right.
RECURSIVE BFillAt(_, _)
BFillAt(s, j) ==
    IF j > Len(s) THEN NaN ELSE IF ~IsNaN(s[j]) THEN s[j] ELSE BFillAt(s, j + 1)

FillMethod(s, m) ==
    AsSeq([j \in 1..Len(s) |->
               IF m = "ffill" THEN FFillAt(s, j) ELSE BFillAt(s, j)])

\* if "fillna" in kwargs: ...; if "fill_method" in kwargs: ...
HandleFills(s, kw) ==
    LET a == IF kw.fillna # None THEN FillValue(s, kw.fillna[1]) ELSE s
    IN  IF kw.fill_method # None THEN FillMethod(a, kw.fill_method[1]) ELSE a

\* if offset != 0: mcg_ds = mcg_ds.shift(offset)
ApplyOffset(s, k) == IF k # 0 THEN Shift(s, k) ELSE s

\* mcg_ds.name = f"MCGD_{length}"
NameOf(length) == <<"MCGD", length>>

\* close.copy(): the buffer the local name close refers to after line 42
\* (CopyAlias: no copy is made).
Caller == "caller"
Local == "local"
NoSeries == "none"
CopyAlias == Caller
CopyTarget == Local

\* The whole call as a function of its arguments: None, or <<values, name>>.
Mcgd(input, length_a, offset_a, c_a, kw) ==
    LET length == NormLength(length_a)
        c == NormC(c_a)
        close == verify_series(input, length)
        offset == get_offset(offset_a)
    IN  IF close = None THEN None
        ELSE LET r == RollUpTo(close, Len(close), length, c)
                 ds == AppendHead(r[1], r[2])
             IN  <<HandleFills(ApplyOffset(ds, offset), kw), NameOf(length)>>

\* A value the next window can take as its first element without the exact
\* arithmetic overflowing.
Fits(x) == ~IsFinite(x) \/ (Abs(x[1]) <= MaxMag /\ x[2] <= MaxMag)

\* The rolling pass over arr stays representable: every value fed back into
\* a later window fits.
RECURSIVE Representable(_, _, _, _)
Representable(arr, k, length, c) ==
    IF k > Len(arr) THEN TRUE
    ELSE /\ Fits(arr[k - 1])
         /\ Representable(RollWindow(arr, arr, k, length, c)[1], k + 1, length, c)


\* -------------------------------------------------------------- the state

VARIABLES
    input,      \* the caller's values when the call was made
    length_a,   \* the arguments as passed
    offset_a,
    c_a,
    kwargs,
    heap,       \* the value buffers: the caller's Series and the local copy
    close,      \* the buffer the local name close refers to, or NoSeries
    length,     \* the locals of mcgd
    c,
    offset,
    i,          \* the position the next rolling window ends at
    mcg_cell,
    mcg_ds,
    ret,        \* what the call returned: None, or <<values, name>>
    pc

vars == <<input, length_a, offset_a, c_a, kwargs, heap, close, length, c,
          offset, i, mcg_cell, mcg_ds, ret, pc>>

args == <<input, length_a, offset_a, c_a, kwargs>>

\* The state at the call, for arguments drawn from the given sets.
InitWith(LA, CA, OA, KW) ==
    /\ input \in Inputs
    /\ length_a \in LA
    /\ c_a \in CA
    /\ offset_a \in OA
    /\ kwargs \in KW
    /\ Representable(input, 2, NormLength(length_a), NormC(c_a))
    /\ heap = [b \in {Caller, Local} |-> IF b = Caller THEN input ELSE <<>>]
    /\ close = Caller
    /\ length = 0
    /\ c = Zero
    /\ offset = 0
    /\ i = 0
    /\ mcg_cell = <<>>
    /\ mcg_ds = <<>>
    /\ ret = None
    /\ pc = "validate"

\* Lines 34-37: validate arguments.
Validate ==
    /\ pc = "validate"
    /\ length' = NormLength(length_a)
    /\ c' = NormC(c_a)
    /\ close' = IF verify_series(heap[Caller], NormLength(length_a)) = None
                THEN NoSeries ELSE Caller
    /\ offset' = get_offset(offset_a)
    /\ pc' = "check"
    /\ UNCHANGED <<args, heap, i, mcg_cell, mcg_ds, ret>>

\* Line 39: if close is None: return
ReturnNone ==
    /\ pc = "check"
    /\ close = NoSeries
    /\ ret' = None
    /\ pc' = "done"
    /\ UNCHANGED <<args, heap, close, length, c, offset, i, mcg_cell, mcg_ds>>

\* Line 42: close = close.copy()
Copy ==
    /\ pc = "check"
    /\ close # NoSeries
    /\ heap' = [heap EXCEPT ![CopyTarget] = heap[close]]
    /\ close' = CopyTarget
    /\ i' = 2
    /\ mcg_cell' = RollInit(heap[close])
    /\ pc' = "roll"
    /\ UNCHANGED <<args, length, c, offset, mcg_ds, ret>>

\* Line 49: one window of the rolling apply, over the values of close.
RollStep ==
    /\ pc = "roll"
    /\ i <= Len(heap[close])
    /\ LET r == RollWindow(heap[close], mcg_cell, i, length, c)
       IN  /\ heap' = [heap EXCEPT ![close] = r[1]]
           /\ mcg_cell' = r[2]
    /\ i' = i + 1
    /\ UNCHANGED <<args, close, length, c, offset, mcg_ds, ret, pc>>

\* Line 50: mcg_ds = close[:1].append(mcg_cell[1:])
AppendStep ==
    /\ pc = "roll"
    /\ i > Len(heap[close])
    /\ mcg_ds' = AppendHead(heap[close], mcg_cell)
    /\ pc' = "offset"
    /\ UNCHANGED <<args, heap, close, length, c, offset, i, mcg_cell, ret>>

\* Lines 53-54: offset.
Offset ==
    /\ pc = "offset"
    /\ mcg_ds' = ApplyOffset(mcg_ds, offset)
    /\ pc' = "fill"
    /\ UNCHANGED <<args, heap, close, length, c, offset, i, mcg_cell, ret>>

\* Lines 57-60: handle fills.
Fill ==
    /\ pc = "fill"
    /\ mcg_ds' = HandleFills(mcg_ds, kwargs)
    /\ pc' = "name"
    /\ UNCHANGED <<args, heap, close, length, c, offset, i, mcg_cell, ret>>

\* Lines 63-66: name, category, return.
Return ==
    /\ pc = "name"
    /\ ret' = <<mcg_ds, NameOf(length)>>
    /\ pc' = "done"
    /\ UNCHANGED <<args, heap, close, length, c, offset, i, mcg_cell, mcg_ds>>

Next ==
    \/ Validate
    \/ ReturnNone
    \/ Copy
    \/ RollStep
    \/ AppendStep
    \/ Offset
    \/ Fill
    \/ Return

\* Calls with offset 0 (absent or 0) and no fill options.
Init == InitWith(LengthArgs, CArgs, {None}, {NoFill})

Spec == Init /\ [][Next]_vars

\* Calls compared with calls on other inputs (offset 0, no fill options).
InitPair == InitWith({Q(2, 1), Q(10, 1)}, {Q(1, 1)}, {None}, {NoFill})

SpecPair == InitPair /\ [][Next]_vars

\* Calls with every offset and fill option.
InitPost == InitWith({None, Q(2, 1)}, {None}, OffsetArgs, FillArgs)

SpecPost == InitPost /\ [][Next]_vars


\* ------------------------------------------------------------- the claims

\* The call returned a sequence.
Returned == pc = "done" /\ ret # None

\* The recurrence of the specification on a pair (a, b):
\* a + (b - a) / (c * length * (b / a)^4).
Rule(a, b, len, cc) ==
    FAdd(a, FDiv(FSub(b, a), FMul(FMul(cc, Q(len, 1)), FPow4(FDiv(b, a)))))

\* o is an input of 3 or more values, as long as this call's, that another
\* call with the arguments of this call returns a sequence for.
OtherInput(o) ==
    /\ Len(o) >= 3
    /\ Len(o) >= length
    /\ Len(o) = Len(input)
    /\ Representable(o, 2, length, c)

\* o and input hold the same values at the positions in P.
AgreeOn(o, P) == \A j \in P : j <= Len(o) /\ o[j] = input[j]

\* What the call on o returns, with the arguments of this call.
OtherOutput(o) == Mcgd(o, length_a, offset_a, c_a, kwargs)[1]

\* C1 as stated: output[i] (i >= 1, n >= 3) is the same in any two calls
\* whose inputs agree at positions i-1 and i.
C1_PairDeterminesOutput ==
    Returned /\ Len(input) >= 3 =>
        \A o \in Inputs :
            (\E k \in 2..Len(input) : AgreeOn(o, {k - 1, k})) /\ OtherInput(o)
                => \A k \in 2..Len(input) :
                       AgreeOn(o, {k - 1, k}) => OtherOutput(o)[k] = ret[1][k]

\* C1 amended: output[i] is the same in any two calls whose inputs agree at
\* every position 0..i (NaN counted equal to NaN).
C1_PrefixDeterminesOutput ==
    Returned /\ Len(input) >= 3 =>
        \A o \in Inputs :
            AgreeOn(o, 1..2) /\ OtherInput(o)
                => \A k \in 2..Len(input) :
                       AgreeOn(o, 1..k) => OtherOutput(o)[k] = ret[1][k]

\* A call on an input of 3 or more values returned, and another input agrees
\* with it on a prefix 0..i and differs after it.
C1_Witness ==
    /\ Returned
    /\ Len(input) >= 3
    /\ \E o \in Inputs :
           /\ Len(o) = Len(input)
           /\ AgreeOn(o, 1..2)
           /\ o[3] # input[3]
           /\ OtherInput(o)
    /\ ret[1][2] # input[2]

\* C2 as stated: output[i] = Rule(input[i-1], input[i]) on the raw input
\* (checked on the calls whose window length is valid, >= 1).
C2_OutputFromRawPair ==
    Returned /\ length >= 1 =>
        \A k \in 2..Len(input) :
            ret[1][k] = Rule(input[k - 1], input[k], length, c)

\* C2 amended: output[i] = Rule(output[i-1], input[i]): the first operand is
\* the value the previous window wrote (output[0] = input[0]), with length
\* and c as normalized (NaN counted equal to NaN).
C2_OutputFromPreviousOutput ==
    Returned =>
        \A k \in 2..Len(input) :
            ret[1][k] = Rule(ret[1][k - 1], input[k], length, c)

\* A returned call whose output at some index >= 2 differs from the rule on
\* the raw pair.
C2_Witness ==
    /\ Returned
    /\ \E k \in 3..Len(input) :
           /\ IsFinite(ret[1][k])
           /\ ret[1][k] # Rule(input[k - 1], input[k], length, c)

\* C3: the first element returned is the first element of the input, and no
\* window of the rolling pass writes position 0.
C3_FirstElementKept ==
    /\ pc = "roll" => heap[close][1] = input[1]
    /\ Returned => ret[1][1] = input[1]

\* A returned call of 2 or more values whose pass wrote a new value.
C3_Witness ==
    /\ Returned
    /\ Len(input) >= 2
    /\ IsFinite(ret[1][2])
    /\ ret[1][2] # input[2]

\* C4: a returned sequence is as long as the input.
C4_LengthKept == Returned => Len(ret[1]) = Len(input)

\* A returned call with a nonzero offset and a fill option.
C4_Witness ==
    /\ Returned
    /\ offset # 0
    /\ kwargs # NoFill
    /\ Len(input) >= 2

\* C5: length absent, 0 or negative returns what length=10 returns (values
\* and name, or no result); c absent, 0 or outside (0, 1] returns what c=1
\* returns.
C5_Defaulting ==
    pc = "done" =>
        /\ length_a \in {None, Q(0, 1), Q(-5, 1)}
               => ret = Mcgd(input, Q(10, 1), offset_a, c_a, kwargs)
        /\ c_a \in {None, Q(0, 1), Q(2, 1), Q(-1, 1)}
               => ret = Mcgd(input, length_a, offset_a, Q(1, 1), kwargs)

\* A call with a defaulted length returned a sequence with a computed value.
C5_Witness ==
    /\ Returned
    /\ length_a = Q(-5, 1)
    /\ c_a = Q(2, 1)
    /\ \E k \in 2..Len(input) : IsFinite(ret[1][k]) /\ ret[1][k] # input[k]

\* The result before the offset step, for the arguments of this call.
Unshifted ==
    LET r == RollUpTo(input, Len(input), length, c)
    IN  AppendHead(r[1], r[2])

\* C6: with offset k > 0 and no fill the first k positions are gaps and
\* position j >= k holds the unshifted result's position j-k; with offset 0
\* the unshifted result is returned.
C6_OffsetShifts ==
    Returned /\ kwargs = NoFill /\ offset >= 0 =>
        \A j \in 1..Len(input) :
            IF j <= offset THEN IsNaN(ret[1][j])
            ELSE ret[1][j] = Unshifted[j - offset]

\* A returned call with a positive offset, no fill, and a value moved.
C6_Witness ==
    /\ Returned
    /\ kwargs = NoFill
    /\ offset = 1
    /\ Len(input) >= 3
    /\ IsFinite(ret[1][3])
    /\ ret[1][3] # ret[1][2]

\* C7 as stated: input[i-1] == 0 makes output[i] non-finite (checked on the
\* calls whose window length is valid, >= 1).
C7_ZeroPreviousNonFinite ==
    Returned /\ length >= 1 =>
        \A k \in 2..Len(input) :
            input[k - 1] = Zero => ~IsFinite(ret[1][k])

\* C7 amended: with input[i-1] == 0, output[i] is NaN for i >= 2 and for
\* input[i] == 0; for i = 1 and input[1] # 0 it is 0 (x / inf), and NaN when
\* the window length in use is 0.
C7_ZeroPrevious ==
    Returned =>
        \A k \in 2..Len(input) :
            input[k - 1] = Zero =>
                IF k = 2 /\ input[2] # Zero /\ length # 0
                THEN ret[1][k] = Zero
                ELSE IsNaN(ret[1][k])

\* A returned call on an input that starts 0, x with x # 0.
C7_Witness ==
    /\ Returned
    /\ input[1] = Zero
    /\ Len(input) >= 2
    /\ input[2] # Zero
    /\ length # 0

\* C9 as stated: input[i] == 0 makes output[i] non-finite when
\* input[i-1] # 0, and equal to input[i-1] when input[i-1] == 0 (checked on
\* the calls whose window length is valid, >= 1).
C9_ZeroCurrent ==
    Returned /\ length >= 1 =>
        \A k \in 2..Len(input) :
            input[k] = Zero =>
                IF input[k - 1] # Zero THEN ~IsFinite(ret[1][k])
                ELSE ret[1][k] = input[k - 1]

\* C9 amended: input[i] == 0 makes output[i] non-finite in every case; for
\* input[i-1] == 0 it is NaN (0/0).
C9_ZeroCurrentNonFinite ==
    Returned =>
        \A k \in 2..Len(input) :
            input[k] = Zero =>
                /\ ~IsFinite(ret[1][k])
                /\ input[k - 1] = Zero => IsNaN(ret[1][k])

\* A returned call, with a valid window length, on an input holding x, 0, 0
\* with x # 0.
C9_Witness ==
    /\ Returned
    /\ length >= 1
    /\ \E k \in 3..Len(input) :
           input[k] = Zero /\ input[k - 1] = Zero /\ input[k - 2] # Zero

\* C8: the caller's values are what they were when the call was made.
C8_CallerUntouched == heap[Caller] = input

\* A returned call whose pass wrote a new value into the local copy.
C8_Witness ==
    /\ Returned
    /\ close = Local
    /\ heap[Local] # input

\* C10: after validation the window length is an integer >= 1 and c is in
\* (0, 1].
C10_NormalizedInRange ==
    pc # "validate" =>
        /\ length >= 1
        /\ FPositive(c) /\ FLeOne(c)

====
